---- MODULE Spec2Model ----
(***************************************************************************)
(* LazyPool (crates/runtime/src/instance/allocator/pooling/lazy_pool.rs):  *)
(* clean slots, coalesced dirty ranges, the two boundary indices and the   *)
(* priority queue of range ids, with alloc and free as the code runs them. *)
(***************************************************************************)
EXTENDS Integers, Sequences, FiniteSets, TLC

\* ---- parameters of LazyPool::new ----
MaxInstances == 6
StackSize == 2
Base == 8
\* Width of usize in the model.  TLC's integers are 32-bit, so the word is
\* narrower than the target's; it is wider than the mask 0x11111 and than
\* every address of the bank, so wrapping arithmetic behaves as on the target.
USizeBits == 24
\* 0x11111
Mask == 69905

\* Once the slots stop being partitioned into live, clean and dirty the
\* range store can grow without limit; a run is followed for this many
\* operations past the first such state.
MaxStray == 7

USizeModulus == 2 ^ USizeBits

Slots == 0 .. (MaxInstances - 1)

\* Option<usize>: None is the empty set, Some(x) the singleton.
None == {}
Some(x) == {x}
Unwrap(o) == CHOOSE x \in o : TRUE

VARIABLES
    dirty_ranges_slab,    \* Slab<Range>: [entries: Seq(Entry), next: Nat]
    dirty_begin_mapping,  \* Vec<Option<usize>>, begin -> slab id
    dirty_end_mapping,    \* Vec<Option<usize>>, end -> slab id
    dirty_ranges,         \* PriorityQueue<usize, usize>: slab id -> len hint
    clean,                \* Vec<SlotId>
    failed,               \* the process panicked inside alloc or free
    live,                 \* caller side: slot -> handles handed out and not freed
    pages_clean,          \* mock decommit: slot -> decommitted since its last free
    last,                 \* the last completed operation
    phase,                \* position in the full-drain scenario ("none" outside it)
    returned,             \* full-drain scenario: slot -> times returned by the final allocs
    decommit_bytes,       \* full-drain scenario: bytes passed to decommit by the final allocs
    stray                 \* operations run since the slots stopped being partitioned

pool_vars == <<dirty_ranges_slab, dirty_begin_mapping, dirty_end_mapping,
               dirty_ranges, clean>>
drain_vars == <<phase, returned, decommit_bytes>>
vars == <<dirty_ranges_slab, dirty_begin_mapping, dirty_end_mapping,
          dirty_ranges, clean, failed, live, pages_clean, last,
          phase, returned, decommit_bytes, stray>>

\* ---- usize arithmetic ----
RECURSIVE BitAnd(_, _)
BitAnd(a, b) ==
    IF a = 0 \/ b = 0 THEN 0
    ELSE (a % 2) * (b % 2) + 2 * BitAnd(a \div 2, b \div 2)

WrappingSub(a, b) == (a - b) % USizeModulus
WrappingMul(a, b) == (a * b) % USizeModulus

\* ---- slab::Slab ----
Vacant(next) == [occupied |-> FALSE, val |-> <<0, 0>>, next |-> next]
Occupied(val) == [occupied |-> TRUE, val |-> val, next |-> 0]

SlabNew == [entries |-> <<>>, next |-> 0]

SlabContains(slab, key) ==
    /\ key + 1 \in DOMAIN slab.entries
    /\ slab.entries[key + 1].occupied

SlabKeys(slab) == {k \in 0 .. (Len(slab.entries) - 1) : SlabContains(slab, k)}

SlabGet(slab, key) == slab.entries[key + 1].val

SlabVacantKey(slab) == slab.next

SlabInsert(slab, val) ==
    LET key == slab.next IN
    IF key = Len(slab.entries)
    THEN [entries |-> Append(slab.entries, Occupied(val)), next |-> key + 1]
    ELSE [entries |-> [slab.entries EXCEPT ![key + 1] = Occupied(val)],
          next |-> slab.entries[key + 1].next]

SlabRemove(slab, key) ==
    [entries |-> [slab.entries EXCEPT ![key + 1] = Vacant(slab.next)],
     next |-> key]

SlabSet(slab, key, val) ==
    [slab EXCEPT !.entries[key + 1] = Occupied(val)]

\* ---- priority_queue::PriorityQueue ----
PQNew == [k \in {} |-> 0]

PQIsEmpty(pq) == DOMAIN pq = {}

PQPush(pq, item, priority) ==
    [k \in DOMAIN pq \cup {item} |-> IF k = item THEN priority ELSE pq[k]]

PQRemove(pq, item) == [k \in DOMAIN pq \ {item} |-> pq[k]]

PQChangePriority(pq, item, priority) ==
    IF item \in DOMAIN pq THEN [pq EXCEPT ![item] = priority] ELSE pq

\* Faulty variant of PQPopCandidates: pop() returns any item.
PQPopAny(pq) == DOMAIN pq

\* The items pop() may return: those of greatest priority (the order among
\* equal priorities is the heap's).
PQPopCandidates(pq) == {k \in DOMAIN pq : \A j \in DOMAIN pq : pq[j] <= pq[k]}

\* ---- decommit_stack_pages ----
BankEnd == Base + MaxInstances * StackSize

DecommitOk(address, len) ==
    len = 0 \/ (Base <= address /\ address + len <= BankEnd)

DecommitCovers(address, len) ==
    {s \in Slots : address <= Base + s * StackSize
                   /\ Base + (s + 1) * StackSize <= address + len}

\* ---- LazyPool::new ----
RECURSIVE SeqOfSet(_)
SeqOfSet(S) ==
    IF S = {} THEN <<>>
    ELSE LET m == CHOOSE x \in S : \A y \in S : x <= y
         IN  <<m>> \o SeqOfSet(S \ {m})

SeqRange(s) == {s[i] : i \in DOMAIN s}

New(ids) ==
    /\ dirty_ranges_slab = SlabNew
    /\ dirty_begin_mapping = [s \in Slots |-> None]
    /\ dirty_end_mapping = [s \in Slots |-> None]
    /\ dirty_ranges = PQNew
    /\ clean = ids
    /\ failed = FALSE
    /\ live = [s \in Slots |-> IF s \in SeqRange(ids) THEN 0 ELSE 1]
    /\ pages_clean = [s \in Slots |-> s \in SeqRange(ids)]
    /\ last = [op |-> "new", kind |-> "none", idx |-> 0, decommit |-> None]

Init ==
    /\ \E S \in SUBSET Slots : New(SeqOfSet(S))
    /\ phase = "none"
    /\ returned = [s \in Slots |-> 0]
    /\ decommit_bytes = 0
    /\ stray = 0

\* ---- LazyPool::is_empty ----
is_empty == clean = <<>> /\ PQIsEmpty(dirty_ranges)

\* A panic ends the call where it happens: the pool keeps what the call had
\* written by then (slab, begin, end, pq), and the caller's handles are as
\* they were.
Panic(op, index, slab, begin, end, pq) ==
    /\ failed' = TRUE
    /\ dirty_ranges_slab' = slab
    /\ dirty_begin_mapping' = begin
    /\ dirty_end_mapping' = end
    /\ dirty_ranges' = pq
    /\ last' = [op |-> op, kind |-> "panic", idx |-> index, decommit |-> None]
    /\ UNCHANGED <<clean, live, pages_clean>>

\* ---- LazyPool::alloc ----
\* Faulty variant of AllocClean: the popped slot is decommitted once more.
AllocCleanDecommits ==
    /\ clean # <<>>
    /\ LET id == clean[Len(clean)] IN
       /\ clean' = SubSeq(clean, 1, Len(clean) - 1)
       /\ live' = [live EXCEPT ![id] = @ + 1]
       /\ last' = [op |-> "alloc", kind |-> "clean", idx |-> id,
                   decommit |-> Some(<<id * StackSize + Base, StackSize>>)]
    /\ UNCHANGED <<dirty_ranges_slab, dirty_begin_mapping, dirty_end_mapping,
                   dirty_ranges, failed, pages_clean>>

AllocClean ==
    /\ clean # <<>>
    /\ LET id == clean[Len(clean)] IN
       /\ clean' = SubSeq(clean, 1, Len(clean) - 1)
       /\ live' = [live EXCEPT ![id] = @ + 1]
       /\ last' = [op |-> "alloc", kind |-> "clean", idx |-> id, decommit |-> None]
    /\ UNCHANGED <<dirty_ranges_slab, dirty_begin_mapping, dirty_end_mapping,
                   dirty_ranges, failed, pages_clean>>

\* The dirty path once the range is popped and out of the slab: clear the two
\* boundary entries, decommit the range, return its first slot and push the
\* rest. The length computation and the decommit can panic; the range is
\* gone from the pool by then.
AllocDrain(slab_id, left, right) ==
    LET pq == PQRemove(dirty_ranges, slab_id)
        slab == SlabRemove(dirty_ranges_slab, slab_id)
        begins == [dirty_begin_mapping EXCEPT ![left] = None]
        ends == [dirty_end_mapping EXCEPT ![right] = None]
        begin == left * StackSize + Base
        len == WrappingMul(WrappingSub(right + 1, left), StackSize)
    IN  \/ /\ right + 1 < left  \* overflow checks on: right + 1 - left
           /\ Panic("alloc", 0, slab, begins, ends, pq)
        \/ IF DecommitOk(begin, len)
           THEN /\ dirty_ranges' = pq
                /\ dirty_ranges_slab' = slab
                /\ dirty_begin_mapping' = begins
                /\ dirty_end_mapping' = ends
                /\ clean' = [i \in 1 .. (right - left) |-> left + i]
                /\ live' = [live EXCEPT ![left] = @ + 1]
                /\ pages_clean' = [s \in Slots |->
                                     pages_clean[s] \/ s \in DecommitCovers(begin, len)]
                /\ last' = [op |-> "alloc", kind |-> "dirty", idx |-> left,
                            decommit |-> Some(<<begin, len>>)]
                /\ UNCHANGED failed
           ELSE \* decommit_stack_pages(..).unwrap()
                Panic("alloc", 0, slab, begins, ends, pq)

AllocDirty ==
    /\ clean = <<>>
    /\ \E slab_id \in PQPopCandidates(dirty_ranges) :
         IF ~SlabContains(dirty_ranges_slab, slab_id)
         THEN \* Slab::remove: "invalid key", the item is popped by then
              Panic("alloc", 0, dirty_ranges_slab, dirty_begin_mapping,
                    dirty_end_mapping, PQRemove(dirty_ranges, slab_id))
         ELSE AllocDrain(slab_id, SlabGet(dirty_ranges_slab, slab_id)[1],
                         SlabGet(dirty_ranges_slab, slab_id)[2])

AllocOp ==
    /\ ~failed
    /\ ~is_empty
    /\ (AllocClean \/ AllocDirty)

\* ---- LazyPool::free ----
\* Faulty variant of RefreshPriority: the new priority is the length, size + 1.
RefreshPriorityLength(pq, slab_id, size) ==
    IF BitAnd(size, Mask) = 0 THEN PQChangePriority(pq, slab_id, size + 1) ELSE pq

\* if size & 0x11111 == 0 { self.dirty_ranges.change_priority(&slab_id, size); }
RefreshPriority(pq, slab_id, size) ==
    IF BitAnd(size, Mask) = 0 THEN PQChangePriority(pq, slab_id, size) ELSE pq

\* Caller side of a completed free: the handle is given up and the slot's
\* pages hold the instance's residue.
FreeDone(index, kind) ==
    /\ live' = [live EXCEPT ![index] = @ - 1]
    /\ pages_clean' = [pages_clean EXCEPT ![index] = FALSE]
    /\ last' = [op |-> "free", kind |-> kind, idx |-> index, decommit |-> None]
    /\ UNCHANGED <<failed, clean>>

\* (None, None)
FreeUnableToMerge(index, begin_taken, end_taken) ==
    LET slab_id == SlabVacantKey(dirty_ranges_slab) IN
    /\ dirty_ranges_slab' = SlabInsert(dirty_ranges_slab, <<index, index>>)
    /\ dirty_begin_mapping' = [begin_taken EXCEPT ![index] = Some(slab_id)]
    /\ dirty_end_mapping' = [end_taken EXCEPT ![index] = Some(slab_id)]
    /\ dirty_ranges' = PQPush(dirty_ranges, slab_id, 1)
    /\ FreeDone(index, "none")

\* (Some(slab_id), None)
FreeMergeLeft(index, slab_id, begin_taken, end_taken) ==
    LET ends == [end_taken EXCEPT ![index] = Some(slab_id)] IN
    IF ~SlabContains(dirty_ranges_slab, slab_id)
    THEN \* get_unchecked_mut on a vacant entry
         Panic("free", index, dirty_ranges_slab, begin_taken, ends, dirty_ranges)
    ELSE LET range == <<SlabGet(dirty_ranges_slab, slab_id)[1], index>>
             slab == SlabSet(dirty_ranges_slab, slab_id, range)
         IN  \/ /\ range[2] < range[1]  \* overflow checks on: range.1 - range.0
                /\ Panic("free", index, slab, begin_taken, ends, dirty_ranges)
             \/ /\ dirty_begin_mapping' = begin_taken
                /\ dirty_end_mapping' = ends
                /\ dirty_ranges_slab' = slab
                /\ dirty_ranges' = RefreshPriority(dirty_ranges, slab_id,
                                                   WrappingSub(range[2], range[1]))
                /\ FreeDone(index, "left")

\* (None, Some(slab_id))
FreeMergeRight(index, slab_id, begin_taken, end_taken) ==
    LET begins == [begin_taken EXCEPT ![index] = Some(slab_id)] IN
    IF ~SlabContains(dirty_ranges_slab, slab_id)
    THEN \* get_unchecked_mut on a vacant entry
         Panic("free", index, dirty_ranges_slab, begins, end_taken, dirty_ranges)
    ELSE LET range == <<index, SlabGet(dirty_ranges_slab, slab_id)[2]>>
             slab == SlabSet(dirty_ranges_slab, slab_id, range)
         IN  \/ /\ range[2] < range[1]  \* overflow checks on: range.1 - range.0
                /\ Panic("free", index, slab, begins, end_taken, dirty_ranges)
             \/ /\ dirty_begin_mapping' = begins
                /\ dirty_end_mapping' = end_taken
                /\ dirty_ranges_slab' = slab
                /\ dirty_ranges' = RefreshPriority(dirty_ranges, slab_id,
                                                   WrappingSub(range[2], range[1]))
                /\ FreeDone(index, "right")

\* (Some(left_slab_id), Some(right_slab_id))
FreeMergeBoth(index, left_slab_id, right_slab_id, begin_taken, end_taken) ==
    IF ~SlabContains(dirty_ranges_slab, right_slab_id)
    THEN \* Slab::remove: "invalid key"
         Panic("free", index, dirty_ranges_slab, begin_taken, end_taken,
               dirty_ranges)
    ELSE LET right_range == SlabGet(dirty_ranges_slab, right_slab_id)
             removed == SlabRemove(dirty_ranges_slab, right_slab_id)
         IN  IF ~SlabContains(removed, left_slab_id)
             THEN \* get_unchecked_mut on a vacant entry
                  Panic("free", index, removed, begin_taken, end_taken,
                        dirty_ranges)
             ELSE LET range == <<SlabGet(removed, left_slab_id)[1], right_range[2]>>
                      slab == SlabSet(removed, left_slab_id, range)
                  IN  \/ /\ range[2] < range[1]  \* overflow checks on
                         /\ Panic("free", index, slab, begin_taken, end_taken,
                                  dirty_ranges)
                      \/ /\ dirty_begin_mapping' = begin_taken
                         /\ dirty_end_mapping' = end_taken
                         /\ dirty_ranges_slab' = slab
                         /\ dirty_ranges' =
                                PQRemove(RefreshPriority(dirty_ranges, left_slab_id,
                                                         WrappingSub(range[2], range[1])),
                                         right_slab_id)
                         /\ FreeDone(index, "both")

FreeOp(index) ==
    /\ ~failed
    /\ live[index] > 0
    /\ LET slab_left == IF index > 0 THEN dirty_end_mapping[index - 1] ELSE None
           slab_right == IF index + 1 < MaxInstances
                         THEN dirty_begin_mapping[index + 1] ELSE None
           end_taken == IF index > 0
                        THEN [dirty_end_mapping EXCEPT ![index - 1] = None]
                        ELSE dirty_end_mapping
           begin_taken == IF index + 1 < MaxInstances
                          THEN [dirty_begin_mapping EXCEPT ![index + 1] = None]
                          ELSE dirty_begin_mapping
       IN  \/ /\ slab_left = None /\ slab_right = None
              /\ FreeUnableToMerge(index, begin_taken, end_taken)
           \/ /\ slab_left # None /\ slab_right = None
              /\ FreeMergeLeft(index, Unwrap(slab_left), begin_taken, end_taken)
           \/ /\ slab_left = None /\ slab_right # None
              /\ FreeMergeRight(index, Unwrap(slab_right), begin_taken, end_taken)
           \/ /\ slab_left # None /\ slab_right # None
              /\ FreeMergeBoth(index, Unwrap(slab_left), Unwrap(slab_right),
                               begin_taken, end_taken)

\* ---- the slots as the pool and its caller see them ----
Ranges == {SlabGet(dirty_ranges_slab, k) : k \in SlabKeys(dirty_ranges_slab)}

InRange(s, k) ==
    /\ SlabGet(dirty_ranges_slab, k)[1] <= s
    /\ s <= SlabGet(dirty_ranges_slab, k)[2]

RangesOf(s) == {k \in SlabKeys(dirty_ranges_slab) : InRange(s, k)}

CleanCount(s) == Cardinality({i \in DOMAIN clean : clean[i] = s})

\* Every slot is in exactly one of: live, the clean set, one dirty range.
Partition ==
    \A s \in Slots : live[s] + CleanCount(s) + Cardinality(RangesOf(s)) = 1

\* ---- any sequence of alloc (when not empty) and free (of a live slot) ----
Explored == stray <= MaxStray

Track == stray' = IF stray > 0 \/ ~Partition' THEN stray + 1 ELSE 0

Alloc == Explored /\ AllocOp /\ Track /\ UNCHANGED drain_vars

Free == Explored /\ (\E index \in Slots : FreeOp(index)) /\ Track /\ UNCHANGED drain_vars

Next == Alloc \/ Free

Spec == Init /\ [][Next]_vars

\* ---- the full-drain scenario: all clean, allocate all, free all in any
\* ---- order, allocate max_instances times ----
DrainInit ==
    /\ New(SeqOfSet(Slots))
    /\ phase = "alloc_all"
    /\ returned = [s \in Slots |-> 0]
    /\ decommit_bytes = 0
    /\ stray = 0

DrainAllocAll ==
    /\ phase = "alloc_all"
    /\ AllocOp
    /\ phase' = IF clean' = <<>> THEN "free_all" ELSE "alloc_all"
    /\ UNCHANGED <<returned, decommit_bytes, stray>>

DrainFreeAll ==
    /\ phase = "free_all"
    /\ \E index \in Slots : FreeOp(index)
    /\ phase' = IF ~failed' /\ (\A s \in Slots : live'[s] = 0)
                THEN "realloc" ELSE "free_all"
    /\ UNCHANGED <<returned, decommit_bytes, stray>>

ReturnedCount(r) == Cardinality({<<s, i>> \in Slots \X (1 .. MaxInstances) : i <= r[s]})

DrainRealloc ==
    /\ phase = "realloc"
    /\ AllocOp
    /\ IF failed'
       THEN UNCHANGED <<phase, returned, decommit_bytes>>
       ELSE /\ returned' = [returned EXCEPT ![last'.idx] = @ + 1]
            /\ decommit_bytes' = decommit_bytes +
                   (IF last'.decommit = None THEN 0 ELSE Unwrap(last'.decommit)[2])
            /\ phase' = IF ReturnedCount(returned') = MaxInstances
                        THEN "done" ELSE "realloc"
    /\ UNCHANGED stray

DrainNext == DrainAllocAll \/ DrainFreeAll \/ DrainRealloc

SpecDrain == DrainInit /\ [][DrainNext]_vars

\* ---- properties ----
Completed(op) == last.op = op /\ last.kind # "panic"

RangeLen(r) == WrappingSub(r[2] + 1, r[1])

\* C1 (P1, disjoint partition): in every state reached by alloc (when not
\* empty) and free (of a live slot), every slot is in exactly one of: live to
\* the caller, the clean set, exactly one dirty range of the range store.
C1_DisjointPartition == Partition

\* C2 (P5, clean-slot cleanliness): the slot alloc has just returned was in
\* the initial clean set and never freed since, or was inside a region passed
\* to decommit after its last free.
C2_CleanSlotCleanliness == Completed("alloc") => pages_clean[last.idx]

\* C3 (no double allocation): the slots handed out and not yet freed never
\* contain a duplicate.
C3_NoDoubleAllocation == \A s \in Slots : live[s] <= 1

\* C4 (P2, no adjacent ranges): after any free the ranges of the range store
\* are pairwise disjoint and none ends right before another begins; once every
\* slot has been freed the range store holds the one range (0, max_instances-1).
C4_NoAdjacentRanges ==
    Completed("free") =>
        /\ \A j, k \in SlabKeys(dirty_ranges_slab) :
             j # k =>
               LET a == SlabGet(dirty_ranges_slab, j)
                   b == SlabGet(dirty_ranges_slab, k)
               IN  /\ a[2] < b[1] \/ b[2] < a[1]
                   /\ a[2] + 1 # b[1]
        /\ (clean = <<>> /\ \A s \in Slots : live[s] = 0) =>
             /\ Ranges = {<<0, MaxInstances - 1>>}
             /\ Cardinality(SlabKeys(dirty_ranges_slab)) = 1

\* C5 (P3, boundary-index consistency): for every range_id -> (b, e) of the
\* range store, the begin index at b and the end index at e hold that id and
\* no other position of either index holds it.
C5_BoundaryIndexConsistency ==
    \A k \in SlabKeys(dirty_ranges_slab) :
        LET r == SlabGet(dirty_ranges_slab, k) IN
        /\ r[1] \in Slots /\ dirty_begin_mapping[r[1]] = Some(k)
        /\ r[2] \in Slots /\ dirty_end_mapping[r[2]] = Some(k)
        /\ \A s \in Slots \ {r[1]} : dirty_begin_mapping[s] # Some(k)
        /\ \A s \in Slots \ {r[2]} : dirty_end_mapping[s] # Some(k)

\* C6 (P4, priority-queue key-set equality): the range_ids held in the
\* priority queue are exactly the range_ids present in the range store.
C6_PriorityQueueKeySet == DOMAIN dirty_ranges = SlabKeys(dirty_ranges_slab)

\* C7 (P6, emptiness equivalence): is_empty() is true exactly when the clean
\* set is empty and the range store is empty, that is, exactly when no slot
\* is clean or dirty and the next alloc would have no candidate.
C7_EmptinessEquivalence ==
    /\ is_empty <=> (clean = <<>> /\ SlabKeys(dirty_ranges_slab) = {})
    /\ is_empty <=> /\ \A s \in Slots : CleanCount(s) = 0 /\ RangesOf(s) = {}
                    /\ clean = <<>> /\ PQPopCandidates(dirty_ranges) = {}

\* C8 (full-drain round trip): after allocating all slots and freeing them in
\* any order, max_instances allocs succeed, return every slot exactly once,
\* leave the pool empty and decommit max_instances * slot_size bytes in total.
C8_FullDrainRoundTrip ==
    /\ ~failed
    /\ phase = "realloc" => ~is_empty
    /\ phase = "done" =>
         /\ \A s \in Slots : returned[s] = 1
         /\ is_empty
         /\ decommit_bytes = MaxInstances * StackSize

\* C9 (free never fails): free of a live slot completes: every range_id it
\* takes from a boundary index is present in the range store and the length
\* computation end - begin does not underflow.
C9_FreeNeverFails == ~(last.op = "free" /\ last.kind = "panic")

\* The range alloc's dirty path removes in this step.
AllocDirtyStep ==
    /\ clean = <<>>
    /\ last'.op = "alloc" /\ last'.kind = "dirty"
    /\ dirty_ranges' # dirty_ranges

Popped == CHOOSE k \in DOMAIN dirty_ranges : k \notin DOMAIN dirty_ranges'

\* C10 (largest-range selection), as claimed: the range alloc removes from a
\* non-empty range store has maximal true length among the ranges stored.
C10_LargestRangeSelection ==
    [][AllocDirtyStep =>
         \A k \in SlabKeys(dirty_ranges_slab) :
             RangeLen(SlabGet(dirty_ranges_slab, k))
                 <= RangeLen(SlabGet(dirty_ranges_slab, Popped))]_vars

\* C10, amended: the range alloc removes is one whose priority in the queue,
\* a lazily refreshed length hint, is maximal among the priorities queued.
C10_LargestPrioritySelection ==
    [][AllocDirtyStep =>
         \A k \in DOMAIN dirty_ranges : dirty_ranges[k] <= dirty_ranges[Popped]]_vars

\* Witness of C10: the dirty path has removed a range of three slots or
\* more, whose priority had been refreshed, and left a range queued.
C10_Witness ==
    /\ Completed("alloc") /\ last.kind = "dirty"
    /\ Unwrap(last.decommit)[2] >= 3 * StackSize
    /\ ~PQIsEmpty(dirty_ranges)

\* ---- steps, seen from the state before and the state after ----
\* This step is a call of op (completed or panicked).
OpStep(op) == last'.op = op /\ vars' # vars

\* The stored ranges that end at slot s, and those that begin at it.
EndsAt(s) ==
    {k \in SlabKeys(dirty_ranges_slab) : SlabGet(dirty_ranges_slab, k)[2] = s}

BeginsAt(s) ==
    {k \in SlabKeys(dirty_ranges_slab) : SlabGet(dirty_ranges_slab, k)[1] = s}

\* C11 (two-neighbour merge): when free(idx) is called with a range L ending at
\* idx-1 and a range R beginning at idx+1, afterwards L's id holds
\* (L.begin, R.end), R's id is gone from the range store and the priority
\* queue, the begin index at L.begin and the end index at R.end hold L's id,
\* and neither index holds another entry at idx-1, idx, idx+1 nor any entry
\* for R's id.
C11_TwoNeighbourMerge ==
    [][\A idx \in Slots :
         (/\ OpStep("free") /\ last'.idx = idx
          /\ EndsAt(idx - 1) # {} /\ BeginsAt(idx + 1) # {}) =>
            \E l \in EndsAt(idx - 1), r \in BeginsAt(idx + 1) :
              LET L == SlabGet(dirty_ranges_slab, l)
                  R == SlabGet(dirty_ranges_slab, r)
              IN  /\ ~failed'
                  /\ SlabKeys(dirty_ranges_slab') = SlabKeys(dirty_ranges_slab) \ {r}
                  /\ l \in SlabKeys(dirty_ranges_slab')
                  /\ SlabGet(dirty_ranges_slab', l) = <<L[1], R[2]>>
                  /\ DOMAIN dirty_ranges' = DOMAIN dirty_ranges \ {r}
                  /\ dirty_begin_mapping'[L[1]] = Some(l)
                  /\ dirty_end_mapping'[R[2]] = Some(l)
                  /\ \A s \in {idx - 1, idx, idx + 1} :
                       /\ s # L[1] => dirty_begin_mapping'[s] = None
                       /\ s # R[2] => dirty_end_mapping'[s] = None
                  /\ \A s \in Slots :
                       /\ dirty_begin_mapping'[s] # Some(r)
                       /\ dirty_end_mapping'[s] # Some(r)]_vars

\* C12 (no dangling range ids): every range_id held in the begin index, the
\* end index or the priority queue is present in the range store.
C12_NoDanglingRangeIds ==
    /\ \A s \in Slots :
         /\ dirty_begin_mapping[s] \subseteq SlabKeys(dirty_ranges_slab)
         /\ dirty_end_mapping[s] \subseteq SlabKeys(dirty_ranges_slab)
    /\ DOMAIN dirty_ranges \subseteq SlabKeys(dirty_ranges_slab)

\* C13 (decommit touches only dirty slots inside the pool): every decommit
\* issued by alloc lies in [base, base + max_instances * slot_size), has a
\* length that is a positive multiple of slot_size, and covers no slot that is
\* live or clean at the time of the call.
C13_DecommitInsidePool ==
    [][(OpStep("alloc") /\ last'.decommit # None) =>
         LET address == Unwrap(last'.decommit)[1]
             length == Unwrap(last'.decommit)[2]
         IN  /\ Base <= address
             /\ address + length <= BankEnd
             /\ length > 0 /\ length % StackSize = 0
             /\ \A s \in DecommitCovers(address, length) :
                  live[s] = 0 /\ CleanCount(s) = 0]_vars

\* The priority queue without the item k.
QueueWithout(k) == [j \in DOMAIN dirty_ranges \ {k} |-> dirty_ranges[j]]

\* C14 (dirty-path alloc): alloc with an empty clean set removes exactly one
\* range (begin, end) from the range store and the priority queue, clears the
\* begin index at begin and the end index at end, issues one decommit at
\* base + begin * slot_size of (end - begin + 1) * slot_size bytes, returns
\* begin and leaves begin+1 ..= end as the clean set; every other range and
\* index entry is unchanged.
C14_DirtyPathAlloc ==
    [][(OpStep("alloc") /\ clean = <<>>) =>
         /\ ~failed'
         /\ \E k \in SlabKeys(dirty_ranges_slab) :
              LET begin == SlabGet(dirty_ranges_slab, k)[1]
                  end == SlabGet(dirty_ranges_slab, k)[2]
              IN  /\ SlabKeys(dirty_ranges_slab') = SlabKeys(dirty_ranges_slab) \ {k}
                  /\ \A j \in SlabKeys(dirty_ranges_slab') :
                       SlabGet(dirty_ranges_slab', j) = SlabGet(dirty_ranges_slab, j)
                  /\ dirty_ranges' = QueueWithout(k)
                  /\ dirty_begin_mapping' = [dirty_begin_mapping EXCEPT ![begin] = None]
                  /\ dirty_end_mapping' = [dirty_end_mapping EXCEPT ![end] = None]
                  /\ last'.decommit = Some(<<Base + begin * StackSize,
                                             (end - begin + 1) * StackSize>>)
                  /\ last'.idx = begin
                  /\ {clean'[i] : i \in DOMAIN clean'} = (begin + 1) .. end
                  /\ Len(clean') = end - begin]_vars

\* C15 (clean-path alloc): alloc with a non-empty clean set returns an element
\* of the clean set, takes exactly that element out of it, issues no decommit
\* and leaves the range store, both indices and the priority queue unchanged.
C15_CleanPathAlloc ==
    [][(OpStep("alloc") /\ clean # <<>>) =>
         /\ ~failed'
         /\ \E i \in DOMAIN clean :
              /\ last'.idx = clean[i]
              /\ clean' = [j \in 1 .. Len(clean) - 1 |->
                             IF j < i THEN clean[j] ELSE clean[j + 1]]
         /\ last'.decommit = None
         /\ UNCHANGED <<dirty_ranges_slab, dirty_begin_mapping,
                        dirty_end_mapping, dirty_ranges>>]_vars

\* A clean-path alloc has just returned while dirty ranges are waiting.
C15_Witness ==
    /\ Completed("alloc") /\ last.kind = "clean"
    /\ clean # <<>>
    /\ ~PQIsEmpty(dirty_ranges)
    /\ \E s \in Slots : dirty_begin_mapping[s] # None

\* C16 (free is lazy): free of a live slot issues no decommit and leaves the
\* clean set as it was; the freed slot becomes a member of exactly one dirty
\* range, and a slot of a dirty range stays in one until an alloc with an
\* empty clean set drains a range.
C16_FreeIsLazy ==
    [][/\ OpStep("free") =>
            /\ last'.decommit = None
            /\ clean' = clean
            /\ \A idx \in Slots :
                 last'.idx = idx => Cardinality(RangesOf(idx))' = 1
       /\ \A s \in Slots :
            (RangesOf(s) # {} /\ ~(OpStep("alloc") /\ clean = <<>>)) =>
               RangesOf(s)' # {}]_vars

\* C17 (single-neighbour merge): when free(idx) is called with a range L
\* ending at idx-1 and no range beginning at idx+1, L becomes (L.begin, idx)
\* under the same id, the end index at idx holds L's id and the end index at
\* idx-1 is cleared; symmetrically for a range R beginning at idx+1 and no
\* range ending at idx-1. No range is created or removed and the key set of
\* the priority queue is unchanged.
C17_SingleNeighbourMerge ==
    [][\A idx \in Slots :
         (OpStep("free") /\ last'.idx = idx) =>
           /\ (EndsAt(idx - 1) # {} /\ BeginsAt(idx + 1) = {}) =>
                \E l \in EndsAt(idx - 1) :
                  /\ ~failed'
                  /\ SlabKeys(dirty_ranges_slab') = SlabKeys(dirty_ranges_slab)
                  /\ SlabGet(dirty_ranges_slab', l) =
                        <<SlabGet(dirty_ranges_slab, l)[1], idx>>
                  /\ dirty_end_mapping'[idx] = Some(l)
                  /\ dirty_end_mapping'[idx - 1] = None
                  /\ DOMAIN dirty_ranges' = DOMAIN dirty_ranges
           /\ (EndsAt(idx - 1) = {} /\ BeginsAt(idx + 1) # {}) =>
                \E r \in BeginsAt(idx + 1) :
                  /\ ~failed'
                  /\ SlabKeys(dirty_ranges_slab') = SlabKeys(dirty_ranges_slab)
                  /\ SlabGet(dirty_ranges_slab', r) =
                        <<idx, SlabGet(dirty_ranges_slab, r)[2]>>
                  /\ dirty_begin_mapping'[idx] = Some(r)
                  /\ dirty_begin_mapping'[idx + 1] = None
                  /\ DOMAIN dirty_ranges' = DOMAIN dirty_ranges]_vars

\* C18 (well-formed ranges): every stored range (begin, end) has
\* 0 <= begin <= end < max_instances, and every slot of it is dirty:
\* not live and not in the clean set.
C18_WellFormedRanges ==
    \A r \in Ranges :
      /\ 0 <= r[1] /\ r[1] <= r[2] /\ r[2] < MaxInstances
      /\ \A s \in r[1] .. r[2] : live[s] = 0 /\ CleanCount(s) = 0

\* This step is a completed free that grew a range (any merge case).
GrowStep == OpStep("free") /\ last'.kind \in {"left", "right", "both"}

\* C19 (lazy priority refresh), as stated: on a range-growing free a priority
\* is changed only when the new length (end - begin + 1) has its low 17 bits
\* all zero, and the new priority is then the new length; otherwise it is
\* left as it was.
C19_LazyPriorityRefresh ==
    [][GrowStep =>
         \A k \in DOMAIN dirty_ranges \cap DOMAIN dirty_ranges' :
           dirty_ranges'[k] # dirty_ranges[k] =>
             /\ RangeLen(SlabGet(dirty_ranges_slab', k)) % (2 ^ 17) = 0
             /\ dirty_ranges'[k] = RangeLen(SlabGet(dirty_ranges_slab', k))]_vars

\* The id of the range a completed merge wrote to: the one free took from
\* the end index at idx-1, or from the begin index at idx+1 when it merged
\* to the right only.
Grown ==
    IF last'.kind = "right"
    THEN Unwrap(dirty_begin_mapping[last'.idx + 1])
    ELSE Unwrap(dirty_end_mapping[last'.idx - 1])

\* C19, amended: on a range-growing free the priority of the grown range
\* becomes size = end - begin (the new length minus one, in usize arithmetic)
\* when size & 0x11111 = 0, i.e. bits 0, 4, 8, 12 and 16 of size are zero;
\* otherwise it is left as it was, as is the priority of every other range.
C19_MaskedPriorityRefresh ==
    [][GrowStep =>
         LET range == SlabGet(dirty_ranges_slab', Grown)
             size == WrappingSub(range[2], range[1])
         IN  /\ Grown \in DOMAIN dirty_ranges /\ Grown \in DOMAIN dirty_ranges'
             /\ dirty_ranges'[Grown] =
                  IF BitAnd(size, Mask) = 0 THEN size ELSE dirty_ranges[Grown]
             /\ \A k \in DOMAIN dirty_ranges' \ {Grown} :
                  k \in DOMAIN dirty_ranges /\ dirty_ranges'[k] = dirty_ranges[k]]_vars

\* A merge has just grown a range to five slots and its priority is now 4.
C19_Witness ==
    /\ Completed("free") /\ last.kind \in {"left", "right", "both"}
    /\ \E k \in SlabKeys(dirty_ranges_slab) :
         /\ InRange(last.idx, k)
         /\ RangeLen(SlabGet(dirty_ranges_slab, k)) = 5
         /\ dirty_ranges[k] = 4

\* C20 (isolated free): when free(idx) is called with no range ending at idx-1
\* and none beginning at idx+1 (idx = 0 and idx = max_instances - 1 included),
\* exactly one range (idx, idx) is inserted under an id that was not in the
\* range store, the begin and end index at idx hold that id, the id enters
\* the priority queue with priority 1, and every other range, index entry and
\* priority is unchanged.
C20_IsolatedFree ==
    [][\A idx \in Slots :
         (/\ OpStep("free") /\ last'.idx = idx
          /\ EndsAt(idx - 1) = {} /\ BeginsAt(idx + 1) = {}) =>
            /\ ~failed'
            /\ \E id \in SlabKeys(dirty_ranges_slab') \ SlabKeys(dirty_ranges_slab) :
                 /\ SlabKeys(dirty_ranges_slab') = SlabKeys(dirty_ranges_slab) \cup {id}
                 /\ SlabGet(dirty_ranges_slab', id) = <<idx, idx>>
                 /\ \A k \in SlabKeys(dirty_ranges_slab) :
                      SlabGet(dirty_ranges_slab', k) = SlabGet(dirty_ranges_slab, k)
                 /\ dirty_begin_mapping'[idx] = Some(id)
                 /\ dirty_end_mapping'[idx] = Some(id)
                 /\ \A s \in Slots \ {idx} :
                      /\ dirty_begin_mapping'[s] = dirty_begin_mapping[s]
                      /\ dirty_end_mapping'[s] = dirty_end_mapping[s]
                 /\ id \notin DOMAIN dirty_ranges
                 /\ DOMAIN dirty_ranges' = DOMAIN dirty_ranges \cup {id}
                 /\ dirty_ranges'[id] = 1
                 /\ \A k \in DOMAIN dirty_ranges :
                      dirty_ranges'[k] = dirty_ranges[k]]_vars

====
